---- MODULE Spec2Model ----
(***************************************************************************)
(* Hybrid retrieval engine of the RAG agent: VectorOperations.vectorSearch *)
(* and the helpers it calls (src/src/services/mastra/database/             *)
(* vectorOperations.ts).                                                   *)
(*                                                                         *)
(* Numbers: similarities, boosts and thresholds are fixed-point integers   *)
(* in thousandths (0.3 is 300, 1.0 is 1000).  Text: a string is a sequence *)
(* of one-character strings.                                               *)
(***************************************************************************)
EXTENDS Integers, Sequences, FiniteSets, TLC

(***************************************************************************)
(* Characters and strings                                                  *)
(***************************************************************************)
LowerLetters == <<"a","b","c","d","e","f","g","h","i","j","k","l","m",
                  "n","o","p","q","r","s","t","u","v","w","x","y","z">>

UpperLetters == <<"A","B","C","D","E","F","G","H","I","J","K","L","M",
                  "N","O","P","Q","R","S","T","U","V","W","X","Y","Z">>

Digits == {"0","1","2","3","4","5","6","7","8","9"}

Range(f) == {f[i] : i \in DOMAIN f}

IsDigit(c) == c \in Digits

IsLower(c) == c \in Range(LowerLetters)

IsUpper(c) == c \in Range(UpperLetters)

IsLetter(c) == IsLower(c) \/ IsUpper(c)

\* \w of a JavaScript regular expression: [A-Za-z0-9_]
IsWordChar(c) == IsLetter(c) \/ IsDigit(c) \/ c = "_"

\* \s of a JavaScript regular expression (the modelled texts use the blank)
IsSpace(c) == c = " "

ToLowerChar(c) ==
    IF IsUpper(c)
        THEN LowerLetters[CHOOSE i \in DOMAIN UpperLetters : UpperLetters[i] = c]
        ELSE c

ToUpperChar(c) ==
    IF IsLower(c)
        THEN UpperLetters[CHOOSE i \in DOMAIN LowerLetters : LowerLetters[i] = c]
        ELSE c

\* String.prototype.toLowerCase
ToLowerCase(s) == [i \in 1..Len(s) |-> ToLowerChar(s[i])]

\* String.prototype.toUpperCase
ToUpperCase(s) == [i \in 1..Len(s) |-> ToUpperChar(s[i])]

\* Array.prototype.filter / String.replace(/[^\w]/g, '') share this shape
RECURSIVE SelectChars(_, _)
SelectChars(s, keepWord) ==
    IF s = <<>> THEN <<>>
    ELSE IF IsWordChar(Head(s)) = keepWord
        THEN <<Head(s)>> \o SelectChars(Tail(s), keepWord)
        ELSE SelectChars(Tail(s), keepWord)

\* word.replace(/[^\w]/g, '')
StripNonWord(s) == SelectChars(s, TRUE)

\* String.prototype.trim
RECURSIVE TrimLeft(_)
TrimLeft(s) ==
    IF s # <<>> /\ IsSpace(Head(s)) THEN TrimLeft(Tail(s)) ELSE s

RECURSIVE TrimRight(_)
TrimRight(s) ==
    IF s # <<>> /\ IsSpace(s[Len(s)])
        THEN TrimRight(SubSeq(s, 1, Len(s) - 1))
        ELSE s

Trim(s) == TrimRight(TrimLeft(s))

\* query.split(/\s+/): the pieces between maximal runs of white space; a
\* leading or trailing run leaves an empty piece, the empty string gives [""]
RECURSIVE SplitWhitespace(_)
SplitWhitespace(s) ==
    IF \A i \in 1..Len(s) : ~IsSpace(s[i]) THEN <<s>>
    ELSE LET first == CHOOSE i \in 1..Len(s) :
                          /\ IsSpace(s[i])
                          /\ \A j \in 1..(i - 1) : ~IsSpace(s[j])
             rest  == TrimLeft(SubSeq(s, first, Len(s)))
         IN  <<SubSeq(s, 1, first - 1)>> \o SplitWhitespace(rest)

MaxOf(S) == CHOOSE x \in S : \A y \in S : y <= x

MinOf(S) == CHOOSE x \in S : \A y \in S : x <= y

Min2(a, b) == IF a <= b THEN a ELSE b

Max2(a, b) == IF a >= b THEN a ELSE b

\* Array.prototype.slice(0, n)
Slice(s, n) == SubSeq(s, 1, Min2(n, Len(s)))

\* the identifier list kept as matched, duplicates included
Dedupe_KeepAll(s) == s

\* [...new Set(list)]: first occurrences, in insertion order
RECURSIVE Dedupe(_)
Dedupe(s) ==
    IF s = <<>> THEN <<>>
    ELSE LET init == Dedupe(SubSeq(s, 1, Len(s) - 1))
             last == s[Len(s)]
         IN  IF last \in Range(init) THEN init ELSE Append(init, last)

RECURSIVE Flatten(_)
Flatten(ss) == IF ss = <<>> THEN <<>> ELSE Head(ss) \o Flatten(Tail(ss))

(***************************************************************************)
(* Regular expressions of extractQueryIdentifiers.  A pattern is a         *)
(* sequence of items [cls, min, max]: between min and max characters of a  *)
(* class, matched greedily with backtracking, between two \b anchors, under*)
(* the flags g (all matches, left to right, not overlapping) and i.        *)
(***************************************************************************)
InClass(c, cls) ==
    CASE cls = "digit"  -> IsDigit(c)
      [] cls = "letter" -> IsLetter(c)             \* [A-Z] under flag i
      [] cls = "dashslash" -> c \in {"-", "/"}     \* [-\/]
      [] cls = "dashspace" -> c = "-" \/ IsSpace(c) \* [-\s]

\* \b before position i (1..Len(s)+1)
WordBoundary(s, i) ==
    LET before == i > 1 /\ IsWordChar(s[i - 1])
        after  == i <= Len(s) /\ IsWordChar(s[i])
    IN  before # after

\* how many characters from position i on belong to cls, at most max
RECURSIVE RunLength(_, _, _, _)
RunLength(s, i, cls, max) ==
    IF max = 0 \/ i > Len(s) \/ ~InClass(s[i], cls) THEN 0   \* max < 0: no cap
    ELSE 1 + RunLength(s, i + 1, cls, max - 1)

\* end (exclusive) of the match of items k.. of pat that starts at i, or 0
RECURSIVE MatchEnd(_, _, _, _)
MatchEnd(pat, k, s, i) ==
    IF k > Len(pat) THEN (IF WordBoundary(s, i) THEN i ELSE 0)
    ELSE LET run  == RunLength(s, i, pat[k].cls, pat[k].max)
             good == {c \in pat[k].min..run : MatchEnd(pat, k + 1, s, i + c) # 0}
         IN  IF good = {} THEN 0
             ELSE MatchEnd(pat, k + 1, s, i + MaxOf(good))

\* String.prototype.match(pattern) with the g flag, scanning from i
RECURSIVE MatchAllFrom(_, _, _)
MatchAllFrom(pat, s, i) ==
    IF i > Len(s) THEN <<>>
    ELSE LET e == IF WordBoundary(s, i) THEN MatchEnd(pat, 1, s, i) ELSE 0
         IN  IF e > i
                 THEN <<SubSeq(s, i, e - 1)>> \o MatchAllFrom(pat, s, e)
                 ELSE MatchAllFrom(pat, s, i + 1)

Item(cls, min, max) == [cls |-> cls, min |-> min, max |-> max]

\* {min,}, + and *: no upper limit
AtLeast(cls, min) == Item(cls, min, 0 - 1)

identifierPatterns == <<
    \* /\b\d+[-\/]\d+\b/gi
    << AtLeast("digit", 1), Item("dashslash", 1, 1),
       AtLeast("digit", 1) >>,
    \* /\b[A-Z]{2,}[-\s]?\d+[-\/]?\d*\b/gi
    << AtLeast("letter", 2), Item("dashspace", 0, 1),
       AtLeast("digit", 1), Item("dashslash", 0, 1),
       AtLeast("digit", 0) >>,
    \* /\b\d+[-\s]?[A-Z]{2,}\b/gi
    << AtLeast("digit", 1), Item("dashspace", 0, 1),
       AtLeast("letter", 2) >>,
    \* /\b[A-Z]{2,}\d+\b/gi
    << AtLeast("letter", 2), AtLeast("digit", 1) >>,
    \* /\b\d+[A-Z]{2,}\b/gi
    << AtLeast("digit", 1), AtLeast("letter", 2) >> >>

(***************************************************************************)
(* Query Analyzer                                                          *)
(***************************************************************************)
IsNumeric(w) == w # <<>> /\ \A i \in 1..Len(w) : IsDigit(w[i])

HasLetter(w) == \E i \in 1..Len(w) : IsLetter(w[i])

\* variant: only the lower-case form of a word is kept
RECURSIVE KeywordLoop_LowerOnly(_, _, _)
KeywordLoop_LowerOnly(words, seen, keywords) ==
    IF words = <<>> THEN keywords
    ELSE LET cleaned      == StripNonWord(Head(words))
             lowerCleaned == ToLowerCase(cleaned)
         IN  IF /\ Len(cleaned) >= 2
                /\ ~IsNumeric(cleaned)
                /\ HasLetter(cleaned)
                /\ lowerCleaned \notin seen
                 THEN KeywordLoop_LowerOnly(Tail(words), seen \cup {lowerCleaned},
                          Append(keywords, lowerCleaned))
                 ELSE KeywordLoop_LowerOnly(Tail(words), seen, keywords)

\* the keyword loop of extractQueryIdentifiers over words[from..]
RECURSIVE KeywordLoop(_, _, _)
KeywordLoop(words, seen, keywords) ==
    IF words = <<>> THEN keywords
    ELSE LET cleaned      == StripNonWord(Head(words))
             lowerCleaned == ToLowerCase(cleaned)
         IN  IF /\ Len(cleaned) >= 2
                /\ ~IsNumeric(cleaned)
                /\ HasLetter(cleaned)
                /\ lowerCleaned \notin seen
                 THEN KeywordLoop(Tail(words), seen \cup {lowerCleaned},
                          IF cleaned # lowerCleaned /\ Len(cleaned) >= 3
                              THEN keywords \o <<lowerCleaned, cleaned>>
                              ELSE Append(keywords, lowerCleaned))
                 ELSE KeywordLoop(Tail(words), seen, keywords)

MaxKeywords == 15

extractQueryIdentifiers(q) ==
    LET matches == Flatten([p \in DOMAIN identifierPatterns |->
                       MatchAllFrom(identifierPatterns[p], q, 1)])
        uniqueIdentifiers ==
            Dedupe([i \in DOMAIN matches |-> ToUpperCase(Trim(matches[i]))])
        keywords == KeywordLoop(SplitWhitespace(q), {}, <<>>)
    IN  [identifiers |-> uniqueIdentifiers,
         keywords    |-> Slice(keywords, MaxKeywords)]

\* tryKeywordSearch's own keyword extraction (lines 181-194)
MaxKeywordSearchTerms == 5

RECURSIVE KeywordFilter(_)
KeywordFilter(words) ==
    IF words = <<>> THEN <<>>
    ELSE LET word == StripNonWord(Head(words))
         IN  IF Len(word) >= 3 /\ ~IsNumeric(word)
                              /\ (\E i \in 1..Len(word) : IsLower(word[i]))
                 THEN <<word>> \o KeywordFilter(Tail(words))
                 ELSE KeywordFilter(Tail(words))

keywordSearchKeywords(q) ==
    Slice(KeywordFilter(SplitWhitespace(ToLowerCase(q))),
          MaxKeywordSearchTerms)

\* the terms of the hybrid query: identifiers, then up to 10 keywords
MaxHybridKeywords == 10

allSearchTerms(q) ==
    LET a == extractQueryIdentifiers(q)
    IN  a.identifiers \o Slice(a.keywords, MaxHybridKeywords)

\* text ILIKE '%term%' of PostgreSQL: case-insensitive, "_" in the pattern
\* stands for any one character
ILike(text, term) ==
    \E p \in 0..(Len(text) - Len(term)) :
        \A j \in 1..Len(term) :
            \/ term[j] = "_"
            \/ ToLowerChar(term[j]) = ToLowerChar(text[p + j])

(***************************************************************************)
(* The inputs of one call: the query texts and the rag_documents rows. *)
(***************************************************************************)
Queries == {
    <<"J","u","l","i","o"," ","N"," ","P","r","o","g","r","a","m","m","e","r">>,
    <<"j","u","l","i","o">>,
    <<"J","u","l","i","o">>,
    <<"2","0","2","4","-","0","0","1">>,
    <<"?">>,
    <<"a","b"," ","c","d">>,
    \* ten two-letter words fill the 10 keywords of the hybrid query
    <<"q","q"," ","w","w"," ","x","x"," ","z","z"," ","k","k"," ","v","v",
      " ","j","j"," ","h","h"," ","g","g"," ","b","b"," ","j","u","l","i",
      "o"," ","p","r","o","g","r","a","m","m","e","r">> }

\* title and content of the rows of rag_documents, by id
Corpus == <<
    [title   |-> <<"J","u","l","i","o"," ","N"," ","(","P","r","o","g","r","a","m","m","e","r",")">>,
     content |-> <<"s","t","a","f","f">>],
    [title   |-> <<"H","a","n","d","b","o","o","k">>,
     content |-> <<"a","s","k"," ","j","u","l","i","o"," ","r","e"," ","2","0","2","4","-","0","0","1">>],
    [title   |-> <<"L","e","a","v","e"," ","p","o","l","i","c","y">>,
     content |-> <<"a","n","n","u","a","l"," ","l","e","a","v","e">>],
    [title   |-> <<"2","0","2","4","-","0","0","1"," ","a","u","d","i","t">>,
     content |-> <<"p","r","o","g","r","a","m","m","e","r"," ","n","o","t","e","s">>],
    [title   |-> <<"A","b","c","d">>,
     content |-> <<"j","u","l","i","o"," ","j","u","l","i","o">>],
    [title   |-> <<"T","r","a","v","e","l">>,
     content |-> <<"p","e","r"," ","d","i","e","m">>],
    [title   |-> <<"J","u","l","i","o"," ","C","V">>,
     content |-> <<"A","B","1","2">>] >>

(***************************************************************************)
(* The store: rag_documents and the three queries sent to it.  A store     *)
(* state gives, for every row present, its base similarity                 *)
(* 1 - (embedding <-> query embedding) to the embedding of the call.   *)
(***************************************************************************)
MaxDocs == 3

DocIds == 1..MaxDocs

\* base similarities a row can have; the L2 distance may exceed 1
Sims == {-600, -100, 100, 120, 300, 600}

Stores == UNION {[D -> Sims] : D \in SUBSET DocIds}

TitleBoostWeight == 500

ContentBoostWeight == 300

RECURSIVE SumSeq(_)
SumSeq(s) == IF s = <<>> THEN 0 ELSE Head(s) + SumSeq(Tail(s))

\* CASE WHEN title ILIKE $i THEN 0.5 ELSE 0 END + ...
titleBoosts(terms, doc) ==
    SumSeq([i \in DOMAIN terms |->
        IF ILike(doc.title, terms[i]) THEN TitleBoostWeight ELSE 0])

\* CASE WHEN content ILIKE $i THEN 0.3 ELSE 0 END + ...
contentBoosts(terms, doc) ==
    SumSeq([i \in DOMAIN terms |->
        IF ILike(doc.content, terms[i]) THEN ContentBoostWeight ELSE 0])

\* (title ILIKE $i OR content ILIKE $i) OR ...
keywordConditions(terms, doc) ==
    \E i \in DOMAIN terms :
        ILike(doc.title, terms[i]) \/ ILike(doc.content, terms[i])

\* CASE WHEN title ILIKE $1 THEN 1 ... ELSE n + 1 END of the keyword query
titleRank(keywords, doc) ==
    LET hits == {i \in DOMAIN keywords : ILike(doc.title, keywords[i])}
    IN  IF hits = {} THEN Len(keywords) + 1 ELSE MinOf(hits)

\* The lexical columns depend on the query text and the row only; they are
\* tabulated once for the queries and rows of the model (f @@ <<>> is f,
\* with its values computed).
Tabulated(f) == f @@ <<>>

LexicalRow(terms, keywords, doc) ==
    [title_boost   |-> titleBoosts(terms, doc),
     content_boost |-> contentBoosts(terms, doc),
     term_match    |-> keywordConditions(terms, doc),
     keyword_match |-> keywordConditions(keywords, doc),
     title_rank    |-> titleRank(keywords, doc)]

LexicalEntry(terms, keywords, extracted) ==
    [terms          |-> terms,
     identifiers    |-> extracted.identifiers,
     keywords       |-> extracted.keywords,
     searchKeywords |-> keywords,
     rows |-> Tabulated([id \in DOMAIN Corpus |->
                  LexicalRow(terms, keywords, Corpus[id])])]

LexicalColumns ==
    Tabulated([q \in Queries |->
        LexicalEntry(allSearchTerms(q), keywordSearchKeywords(q),
                     extractQueryIdentifiers(q))])

\* lexicographic order on integer tuples of equal length
RECURSIVE LexLess(_, _)
LexLess(a, b) ==
    /\ a # <<>>
    /\ \/ Head(a) < Head(b)
       \/ Head(a) = Head(b) /\ LexLess(Tail(a), Tail(b))

\* ORDER BY key LIMIT n: every list the store may return for the rows S,
\* rows with equal keys coming in any order
RECURSIVE OrderByLimit(_, _, _)
OrderByLimit(S, key, n) ==
    IF n <= 0 \/ S = {} THEN {<<>>}
    ELSE LET first == {r \in S : \A o \in S : ~LexLess(key[o], key[r])}
         IN  UNION {{<<r>> \o rest : rest \in OrderByLimit(S \ {r}, key, n - 1)}
                        : r \in first}

\* the SELECT of executeVectorSearch
vectorRow(st, id) ==
    [id |-> id, distance |-> 1000 - st[id], similarity |-> st[id]]

\* ORDER BY embedding <-> $1::vector LIMIT $3
vectorSelect(rows, n) ==
    OrderByLimit(rows, [r \in rows |-> <<r.distance>>], n)

executeVectorSearch(st, t, n) ==
    vectorSelect({vectorRow(st, id) : id \in {i \in DOMAIN st : st[i] > t}}, n)

\* variant: the combined similarity is not capped at 1.0
hybridRow_Uncapped(col, st, id) ==
    [id               |-> id,
     distance         |-> 1000 - st[id],
     base_similarity  |-> st[id],
     keyword_boost    |-> col.title_boost + col.content_boost,
     similarity       |-> st[id] + col.title_boost + col.content_boost,
     keyword_priority |-> IF col.title_boost > 0 THEN 1
                          ELSE IF col.content_boost > 0 THEN 2
                          ELSE 3]

\* the SELECT built by hybridVectorSearch: columns, WHERE, ORDER BY, LIMIT
hybridRow(col, st, id) ==
    [id               |-> id,
     distance         |-> 1000 - st[id],
     base_similarity  |-> st[id],
     keyword_boost    |-> col.title_boost + col.content_boost,
     similarity       |-> Min2(1000, st[id] + col.title_boost + col.content_boost),
     keyword_priority |-> IF col.title_boost > 0 THEN 1
                          ELSE IF col.content_boost > 0 THEN 2
                          ELSE 3]

hybridCandidates(st, q, t) ==
    {hybridRow(LexicalColumns[q].rows[id], st, id) :
        id \in {i \in DOMAIN st :
                   st[i] > t \/ LexicalColumns[q].rows[i].term_match}}

hybridSelect(rows, n) ==
    OrderByLimit(rows,
        [r \in rows |-> <<r.keyword_priority, 0 - r.similarity, r.distance>>], n)

\* hybridQuery without its LIMIT clause
hybridQuery_NoLimit(st, q, t, n) ==
    hybridSelect(hybridCandidates(st, q, t), Cardinality(DOMAIN st))

\* hybridQuery ordered by similarity alone, keyword_priority left out
hybridQuery_BySimilarity(st, q, t, n) ==
    LET rows == hybridCandidates(st, q, t)
    IN  OrderByLimit(rows, [r \in rows |-> <<0 - r.similarity, r.distance>>], n)

hybridQuery(st, q, t, n) ==
    hybridSelect(hybridCandidates(st, q, t), n)

HybridRelaxation == 500

\* variant: the relaxed gate is not floored at 0
hybridVectorSearch_Unfloored(st, q, t, n) ==
    IF LexicalColumns[q].terms = <<>>
        THEN executeVectorSearch(st, t, n)
        ELSE hybridQuery(st, q, t - HybridRelaxation, n)

\* variant: the hybrid query keeps the caller's threshold as its gate
hybridVectorSearch_Unrelaxed(st, q, t, n) ==
    IF LexicalColumns[q].terms = <<>>
        THEN executeVectorSearch(st, t, n)
        ELSE hybridQuery(st, q, t, n)

\* hybridVectorSearch: the rows the store may answer with
hybridVectorSearch(st, q, t, n) ==
    IF LexicalColumns[q].terms = <<>>
        THEN executeVectorSearch(st, t, n)
        ELSE hybridQuery(st, q, Max2(0, t - HybridRelaxation), n)

KeywordSimilarity == 500

\* the SELECT built by tryKeywordSearch
keywordRow(id) ==
    [id |-> id, distance |-> KeywordSimilarity, similarity |-> KeywordSimilarity]

\* variant: rows of equal title rank come oldest first
keywordSelect_OldestFirst(rows, col, n) ==
    OrderByLimit(rows, [r \in rows |-> <<col[r.id].title_rank, r.id>>], n)

\* ORDER BY CASE ... END, id DESC LIMIT
keywordSelect(rows, col, n) ==
    OrderByLimit(rows, [r \in rows |-> <<col[r.id].title_rank, 0 - r.id>>], n)

keywordQuery(st, q, n) ==
    keywordSelect({keywordRow(id) :
                      id \in {i \in DOMAIN st : LexicalColumns[q].rows[i].keyword_match}},
                  LexicalColumns[q].rows, n)

\* the thresholds tried by trySearchWithFallbackThresholds, in order
RECURSIVE FilterBelow(_, _)
FilterBelow(ts, bound) ==
    IF ts = <<>> THEN <<>>
    ELSE IF Head(ts) < bound
        THEN <<Head(ts)>> \o FilterBelow(Tail(ts), bound)
        ELSE FilterBelow(Tail(ts), bound)

\* the ladder without its floors and without the filter below the original
fallbackThresholds_Unfloored(original) ==
    << (original * 7) \div 10, (original * 5) \div 10, 100, 50, 10, 0 >>

\* variant: only the two scaled thresholds are tried
fallbackThresholds_ScaledOnly(original) ==
    FilterBelow(<< Max2(100, (original * 7) \div 10),
                   Max2(50, (original * 5) \div 10) >>, original)

fallbackThresholds(original) ==
    FilterBelow(<< Max2(100, (original * 7) \div 10),
                   Max2(50, (original * 5) \div 10),
                   100, 50, 10, 0 >>, original)

\* the post-filter of vectorSearch (lines 419-437) on one row
HasField(row, f) == f \in DOMAIN row

\* the strong-boost branch asking for both conditions instead of either
passesFilter_BothConditions(row, t) ==
    LET sim     == row.similarity
        boost   == IF HasField(row, "keyword_boost") THEN row.keyword_boost ELSE 0
        baseSim == IF HasField(row, "base_similarity") THEN row.base_similarity ELSE 0
    IN  IF boost > 300 THEN sim >= 500 /\ baseSim >= 200
        ELSE IF boost > 150 THEN sim >= Max2(t - 200, 400)
        ELSE sim >= t

passesFilter(row, t) ==
    LET sim     == row.similarity
        boost   == IF HasField(row, "keyword_boost") THEN row.keyword_boost ELSE 0
        baseSim == IF HasField(row, "base_similarity") THEN row.base_similarity ELSE 0
    IN  IF boost > 300 THEN sim >= 500 \/ baseSim >= 200
        ELSE IF boost > 150 THEN sim >= Max2(t - 200, 400)
        ELSE sim >= t

RECURSIVE FilterRows(_, _)
FilterRows(rows, t) ==
    IF rows = <<>> THEN <<>>
    ELSE IF passesFilter(Head(rows), t)
        THEN <<Head(rows)>> \o FilterRows(Tail(rows), t)
        ELSE FilterRows(Tail(rows), t)

\* a mapper that rescales the similarity from [-1,1] to [0,1]
mapRowsToDocuments_Rescaled(rows) ==
    [i \in DOMAIN rows |->
        [document   |-> [id      |-> rows[i].id,
                         title   |-> Corpus[rows[i].id].title,
                         content |-> Corpus[rows[i].id].content],
         similarity |-> Min2(1000, (rows[i].similarity + 1000) \div 2)]]

\* a mapper that emits every row twice, as a merge of two passes would
mapRowsToDocuments_Doubled(rows) ==
    [i \in 1..(2 * Len(rows)) |->
        [document   |-> [id      |-> rows[((i - 1) % Len(rows)) + 1].id,
                         title   |-> Corpus[rows[((i - 1) % Len(rows)) + 1].id].title,
                         content |-> Corpus[rows[((i - 1) % Len(rows)) + 1].id].content],
         similarity |-> Min2(1000, rows[((i - 1) % Len(rows)) + 1].similarity)]]

\* mapRowsToDocuments: the document and the similarity capped at 1.0
mapRowsToDocuments(rows) ==
    [i \in DOMAIN rows |->
        [document   |-> [id      |-> rows[i].id,
                         title   |-> Corpus[rows[i].id].title,
                         content |-> Corpus[rows[i].id].content],
         similarity |-> Min2(1000, rows[i].similarity)]]

(***************************************************************************)
(* vectorSearch as a state machine: one action per awaited call (embedding *)
(* provider, store) together with the code that runs up to the next await. *)
(***************************************************************************)
VARIABLES
    query,      \* the query text
    options,    \* QueryOptions: limit and threshold, each possibly omitted
    store,      \* rag_documents: base similarity of every row present
    pc,         \* the await the call is suspended at, or "done"
    result,     \* result.rows of vectorSearch
    pending,    \* fallback thresholds not tried yet
    calls,      \* the calls made to the collaborators, in order
    outcome,    \* how the returned promise settled
    others,     \* the locals of the other calls in flight on the instance
    translatedStore, \* similarity of every row to the translated query
    analysis    \* what extractQueryIdentifiers returned, run after run

vars == <<query, options, store, pc, result, pending, calls, outcome,
          others, translatedStore, analysis>>

DEFAULT_LIMIT == 5

DEFAULT_THRESHOLD == 300

Limits == {1, 2}

Thresholds == {0, 100, 700}

\* options objects: every combination of given and omitted fields
OptionsSet ==
    {[f \in D |-> IF f = "limit" THEN l ELSE t] :
        D \in SUBSET {"limit", "threshold"}, l \in Limits, t \in Thresholds}

limit == IF "limit" \in DOMAIN options THEN options.limit ELSE DEFAULT_LIMIT

threshold ==
    IF "threshold" \in DOMAIN options THEN options.threshold ELSE DEFAULT_THRESHOLD

Init ==
    /\ query \in Queries
    /\ options \in OptionsSet
    /\ store \in Stores
    /\ pc = "embed"
    /\ result = <<>>
    /\ pending = <<>>
    /\ calls = <<>>
    /\ outcome = [status |-> "pending"]
    /\ others = <<>>
    /\ analysis = <<>>
    /\ translatedStore = <<>>

\* stores with more rows than DEFAULT_LIMIT, searched without a limit option
ManyDocs == 6

ManySims == {120, 600}

InitManyRows ==
    /\ query \in Queries
    /\ options \in {o \in OptionsSet : "limit" \notin DOMAIN o}
    /\ store \in [1..ManyDocs -> ManySims]
    /\ pc = "embed"
    /\ result = <<>>
    /\ pending = <<>>
    /\ calls = <<>>
    /\ outcome = [status |-> "pending"]
    /\ others = <<>>
    /\ analysis = <<>>
    /\ translatedStore = <<>>

\* the catch block of vectorSearch (lines 493-498)
Reject(cause) ==
    /\ pc' = "done"
    /\ outcome' = [status |-> "rejected",
                   error  |-> [code          |-> "VECTOR_SEARCH_ERROR",
                               query         |-> query,
                               options       |-> options,
                               originalError |-> cause]]

\* a vectorSearch that treats "no documents" as a failure
Resolve_ThrowOnEmpty(rows) ==
    /\ pc' = "done"
    /\ outcome' = IF rows = <<>>
                      THEN [status |-> "rejected",
                            error  |-> [code          |-> "VECTOR_SEARCH_ERROR",
                                        query         |-> query,
                                        options       |-> options,
                                        originalError |-> "no documents"]]
                      ELSE [status |-> "resolved",
                            value  |-> mapRowsToDocuments(rows)]

\* return this.mapRowsToDocuments(rows)
Resolve(rows) ==
    /\ pc' = "done"
    /\ outcome' = [status |-> "resolved", value |-> mapRowsToDocuments(rows)]

StoreCall(stage, sql, t, ok, rows) ==
    [stage |-> stage, sql |-> sql, threshold |-> t, ok |-> ok, rows |-> rows]

\* await this.generateQueryEmbedding(query), the provider answering
GenerateEmbeddingOk ==
    /\ pc = "embed"
    /\ calls' = Append(calls, [stage |-> "Embedding", ok |-> TRUE])
    /\ pc' = "hybrid"
    /\ UNCHANGED <<analysis, others, translatedStore, query, options, store, result, pending, outcome>>

\* an embedding failure answered by one more attempt
GenerateEmbeddingFail_Retry ==
    /\ pc = "embed"
    /\ Len(calls) < 2
    /\ calls' = Append(calls, [stage |-> "Embedding", ok |-> FALSE])
    /\ UNCHANGED <<analysis, others, translatedStore, query, options, store, pc, result, pending, outcome>>

\* the provider throws or returns no values: generateQueryEmbedding throws
GenerateEmbeddingFail ==
    /\ pc = "embed"
    /\ \E cause \in {"provider error", "no embedding values"} :
        /\ calls' = Append(calls, [stage |-> "Embedding", ok |-> FALSE])
        /\ Reject(cause)
    /\ UNCHANGED <<analysis, others, translatedStore, query, options, store, result, pending>>

\* the stage choice with the keyword query left out
afterHybrid_VectorFirst(q, rows, filtered) ==
    IF rows # <<>> /\ filtered # <<>> THEN "return filtered"
    ELSE IF rows # <<>> THEN "return rows"
    ELSE "vector"

\* lines 416-465 after the hybrid query answered: what vectorSearch does next
afterHybrid(q, rows, filtered) ==
    IF rows # <<>> /\ filtered # <<>> THEN "return filtered"
    \* result.rows is not empty: every later stage is skipped (line 491)
    ELSE IF rows # <<>> THEN "return rows"
    ELSE IF (LexicalColumns[q].identifiers # <<>> \/ LexicalColumns[q].keywords # <<>>)
              /\ LexicalColumns[q].searchKeywords # <<>> THEN "keyword"
    \* no terms, or tryKeywordSearch returns null at line 197
    ELSE "vector"

\* lines 412-459: the hybrid query, the post-filter, and the choice of the
\* next stage
HybridSearchOk ==
    /\ pc = "hybrid"
    /\ \E rows \in hybridVectorSearch(store, query, threshold, limit) :
        LET filtered == FilterRows(rows, threshold)
            next     == afterHybrid(query, rows, filtered)
        IN  /\ calls' = Append(calls,
                   IF LexicalColumns[query].terms = <<>>
                       THEN StoreCall("Hybrid", "vector", threshold, TRUE, rows)
                       ELSE StoreCall("Hybrid", "hybrid",
                                Max2(0, threshold - HybridRelaxation), TRUE, rows))
            /\ result' = rows
            /\ CASE next = "return filtered" -> Resolve(filtered)
                 [] next = "return rows"     -> Resolve(rows)
                 [] OTHER -> pc' = next /\ UNCHANGED outcome
    /\ UNCHANGED <<analysis, others, translatedStore, query, options, store, pending>>

\* a failed hybrid query answered by one more attempt
HybridSearchFail_Retry ==
    /\ pc = "hybrid"
    /\ Len(calls) < 3
    /\ calls' = Append(calls,
           StoreCall("Hybrid",
               IF LexicalColumns[query].terms = <<>> THEN "vector" ELSE "hybrid",
               IF LexicalColumns[query].terms = <<>> THEN threshold
                   ELSE Max2(0, threshold - HybridRelaxation),
               FALSE, <<>>))
    /\ UNCHANGED <<analysis, others, translatedStore, query, options, store, pc, result,
                   pending, outcome>>

HybridSearchFail ==
    /\ pc = "hybrid"
    /\ calls' = Append(calls,
           StoreCall("Hybrid",
               IF LexicalColumns[query].terms = <<>> THEN "vector" ELSE "hybrid",
               IF LexicalColumns[query].terms = <<>> THEN threshold
                   ELSE Max2(0, threshold - HybridRelaxation),
               FALSE, <<>>))
    /\ Reject("store error")
    /\ UNCHANGED <<analysis, others, translatedStore, query, options, store, result, pending>>

\* lines 453-465: the keyword query of tryKeywordSearch
KeywordSearchOk ==
    /\ pc = "keyword"
    /\ \E rows \in keywordQuery(store, query, limit) :
        /\ calls' = Append(calls,
               StoreCall("KeywordPriority", "keyword", KeywordSimilarity, TRUE, rows))
        /\ IF rows # <<>>
               THEN result' = rows /\ Resolve(rows)
               ELSE pc' = "vector" /\ UNCHANGED <<result, outcome>>
    /\ UNCHANGED <<analysis, others, translatedStore, query, options, store, pending>>

\* the catch block of tryKeywordSearch (lines 238-241) returns null
KeywordSearchFail ==
    /\ pc = "keyword"
    /\ calls' = Append(calls,
           StoreCall("KeywordPriority", "keyword", KeywordSimilarity, FALSE, <<>>))
    /\ pc' = "vector"
    /\ UNCHANGED <<analysis, others, translatedStore, query, options, store, result, pending, outcome>>

\* lines 462-479: the pure vector query at the caller's threshold
PureVectorOk ==
    /\ pc = "vector"
    /\ \E rows \in executeVectorSearch(store, threshold, limit) :
        /\ calls' = Append(calls,
               StoreCall("PureVector", "vector", threshold, TRUE, rows))
        /\ result' = rows
        /\ IF rows # <<>>
               THEN Resolve(rows) /\ UNCHANGED pending
           ELSE IF fallbackThresholds(threshold) = <<>>
               THEN Resolve(rows) /\ UNCHANGED pending
               ELSE /\ pc' = "fallback"
                    /\ pending' = fallbackThresholds(threshold)
                    /\ UNCHANGED outcome
    /\ UNCHANGED <<analysis, others, translatedStore, query, options, store>>

\* a pure vector query whose failure is taken for an empty answer
PureVectorFail_Swallowed ==
    /\ pc = "vector"
    /\ calls' = Append(calls,
           StoreCall("PureVector", "vector", threshold, FALSE, <<>>))
    /\ Resolve(<<>>)
    /\ UNCHANGED <<analysis, others, translatedStore, query, options, store, result, pending>>

PureVectorFail ==
    /\ pc = "vector"
    /\ calls' = Append(calls,
           StoreCall("PureVector", "vector", threshold, FALSE, <<>>))
    /\ Reject("store error")
    /\ UNCHANGED <<analysis, others, translatedStore, query, options, store, result, pending>>

\* a ladder that goes on to the lower thresholds after a step found rows
FallbackStepOk_KeepsGoing ==
    /\ pc = "fallback"
    /\ \E rows \in executeVectorSearch(store, Head(pending), limit) :
        /\ calls' = Append(calls,
               StoreCall("ThresholdCascade", "vector", Head(pending), TRUE, rows))
        /\ pending' = Tail(pending)
        /\ result' = rows
        /\ IF Tail(pending) = <<>>
               THEN Resolve(rows)
               ELSE UNCHANGED <<pc, outcome>>
    /\ UNCHANGED <<analysis, others, translatedStore, query, options, store>>

\* one turn of the loop of trySearchWithFallbackThresholds
FallbackStepOk ==
    /\ pc = "fallback"
    /\ \E rows \in executeVectorSearch(store, Head(pending), limit) :
        /\ calls' = Append(calls,
               StoreCall("ThresholdCascade", "vector", Head(pending), TRUE, rows))
        /\ pending' = Tail(pending)
        /\ IF rows # <<>>
               THEN result' = rows /\ Resolve(rows)
           ELSE IF Tail(pending) = <<>>
               THEN Resolve(result) /\ UNCHANGED result
               ELSE UNCHANGED <<pc, result, outcome>>
    /\ UNCHANGED <<analysis, others, translatedStore, query, options, store>>

FallbackStepFail ==
    /\ pc = "fallback"
    /\ calls' = Append(calls,
           StoreCall("ThresholdCascade", "vector", Head(pending), FALSE, <<>>))
    /\ Reject("store error")
    /\ UNCHANGED <<analysis, others, translatedStore, query, options, store, result, pending>>

Next ==
    \/ GenerateEmbeddingOk
    \/ GenerateEmbeddingFail
    \/ HybridSearchOk
    \/ HybridSearchFail
    \/ KeywordSearchOk
    \/ KeywordSearchFail
    \/ PureVectorOk
    \/ PureVectorFail
    \/ FallbackStepOk
    \/ FallbackStepFail

Spec == Init /\ [][Next]_vars

\* stores of at most one row, for the runs checked to their end
SingleRowStores == {st \in Stores : \A d, e \in DOMAIN st : d = e}

InitCompleting ==
    /\ query \in Queries
    /\ options \in OptionsSet
    /\ store \in SingleRowStores
    /\ pc = "embed"
    /\ result = <<>>
    /\ pending = <<>>
    /\ calls = <<>>
    /\ outcome = [status |-> "pending"]
    /\ others = <<>>
    /\ analysis = <<>>
    /\ translatedStore = <<>>

\* every awaited call of a pending vectorSearch completes
SpecCompleting == InitCompleting /\ [][Next]_vars /\ WF_vars(Next)

\* the same calls, over the small stores and over the stores of many rows
SpecManyRows == (Init \/ InitManyRows) /\ [][Next]_vars

(***************************************************************************)
(* Several vectorSearch calls in flight on one VectorOperations instance.  *)
(* The instance holds genAI and dbPool only (lines 18-24); query, options, *)
(* queryEmbedding and result are parameters and locals of the call. The    *)
(* variables above hold the locals of the call the event loop is running,  *)
(* `others` those of the calls suspended at an await.                      *)
(***************************************************************************)
Frame ==
    [query |-> query, options |-> options, pc |-> pc, result |-> result,
     pending |-> pending, calls |-> calls, outcome |-> outcome]

NewCall(q, o) ==
    [query |-> q, options |-> o, pc |-> "embed", result |-> <<>>,
     pending |-> <<>>, calls |-> <<>>, outcome |-> [status |-> "pending"]]

\* a vectorSearch that keeps result.rows in a field of the instance
Resume_SharedResult(c) ==
    /\ c \in DOMAIN others
    /\ others[c].pc # "done"
    /\ others' = [others EXCEPT ![c] = Frame]
    /\ query' = others[c].query
    /\ options' = others[c].options
    /\ pc' = others[c].pc
    /\ pending' = others[c].pending
    /\ calls' = others[c].calls
    /\ outcome' = others[c].outcome
    /\ UNCHANGED <<analysis, result, store, translatedStore>>

\* the running call is suspended at its await (or has settled) and the
\* event loop resumes call c with the locals it was suspended with
Resume(c) ==
    /\ c \in DOMAIN others
    /\ others[c].pc # "done"
    /\ others' = [others EXCEPT ![c] = Frame]
    /\ query' = others[c].query
    /\ options' = others[c].options
    /\ pc' = others[c].pc
    /\ result' = others[c].result
    /\ pending' = others[c].pending
    /\ calls' = others[c].calls
    /\ outcome' = others[c].outcome
    /\ UNCHANGED <<analysis, store, translatedStore>>

ResumeOther == \E c \in DOMAIN others : Resume(c)

MaxOtherCalls == 1

ConcurrentQueries == {q \in Queries : Len(q) = 1 \/ q = <<"j", "u", "l", "i", "o">>}

ConcurrentOptions ==
    {o \in OptionsSet :
        DOMAIN o = {} \/ (DOMAIN o = {"threshold"} /\ o.threshold = 0)}

ConcurrentStores ==
    {st \in Stores : \E d \in {1, 3} : DOMAIN st = {d} /\ st[d] = -600}

InitConcurrent ==
    /\ query \in ConcurrentQueries
    /\ options \in ConcurrentOptions
    /\ store \in ConcurrentStores
    /\ pc = "embed"
    /\ result = <<>>
    /\ pending = <<>>
    /\ calls = <<>>
    /\ outcome = [status |-> "pending"]
    /\ others \in [1..MaxOtherCalls ->
                      {NewCall(q, o) : q \in ConcurrentQueries, o \in ConcurrentOptions}]
    /\ translatedStore = <<>>
    /\ analysis = <<>>

NextConcurrent ==
    \/ Next
    \/ ResumeOther

SpecConcurrent == InitConcurrent /\ [][NextConcurrent]_vars

(***************************************************************************)
(* The deployment with a translation provider: vectorSearch runs the pure  *)
(* vector query, its own threshold ladder, and then translates the query,  *)
(* embeds the translation and queries once more at threshold 0.            *)
(***************************************************************************)
\* the thresholds tried by trySearchWithFallbackThresholds of this deployment
multilingualFallbackThresholds(original) ==
    FilterBelow(<< Max2(50, (original * 5) \div 10), 50, 10, 0 >>, original)

\* mapRowsToDocuments of this deployment: the similarity as the store gave it
multilingualMapRowsToDocuments(rows) ==
    [i \in DOMAIN rows |->
        [document   |-> [id      |-> rows[i].id,
                         title   |-> Corpus[rows[i].id].title,
                         content |-> Corpus[rows[i].id].content],
         similarity |-> rows[i].similarity]]

MultilingualResolve(rows) ==
    /\ pc' = "done"
    /\ outcome' = [status |-> "resolved",
                   value  |-> multilingualMapRowsToDocuments(rows)]

MultilingualEmbeddingOk ==
    /\ pc = "ml embed"
    /\ calls' = Append(calls, [stage |-> "Embedding", ok |-> TRUE])
    /\ pc' = "ml vector"
    /\ UNCHANGED <<analysis, others, translatedStore, query, options, store, result,
                   pending, outcome>>

MultilingualEmbeddingFail ==
    /\ pc = "ml embed"
    /\ \E cause \in {"provider error", "no embedding values"} :
        /\ calls' = Append(calls, [stage |-> "Embedding", ok |-> FALSE])
        /\ Reject(cause)
    /\ UNCHANGED <<analysis, others, translatedStore, query, options, store, result, pending>>

\* lines 178-193: the initial query and the choice of what follows
MultilingualSearchOk ==
    /\ pc = "ml vector"
    /\ \E rows \in executeVectorSearch(store, threshold, limit) :
        /\ calls' = Append(calls,
               StoreCall("PureVector", "vector", threshold, TRUE, rows))
        /\ result' = rows
        /\ IF rows # <<>>
               THEN MultilingualResolve(rows) /\ UNCHANGED pending
           ELSE IF multilingualFallbackThresholds(threshold) = <<>>
               THEN pc' = "ml translate" /\ UNCHANGED <<pending, outcome>>
               ELSE /\ pc' = "ml fallback"
                    /\ pending' = multilingualFallbackThresholds(threshold)
                    /\ UNCHANGED outcome
    /\ UNCHANGED <<analysis, others, translatedStore, query, options, store>>

MultilingualSearchFail ==
    /\ pc = "ml vector"
    /\ calls' = Append(calls,
           StoreCall("PureVector", "vector", threshold, FALSE, <<>>))
    /\ Reject("store error")
    /\ UNCHANGED <<analysis, others, translatedStore, query, options, store, result, pending>>

\* one turn of the loop of trySearchWithFallbackThresholds (lines 145-155)
MultilingualFallbackStepOk ==
    /\ pc = "ml fallback"
    /\ \E rows \in executeVectorSearch(store, Head(pending), limit) :
        /\ calls' = Append(calls,
               StoreCall("ThresholdCascade", "vector", Head(pending), TRUE, rows))
        /\ pending' = Tail(pending)
        /\ IF rows # <<>>
               THEN result' = rows /\ MultilingualResolve(rows)
           ELSE IF Tail(pending) = <<>>
               THEN pc' = "ml translate" /\ UNCHANGED <<result, outcome>>
               ELSE UNCHANGED <<pc, result, outcome>>
    /\ UNCHANGED <<analysis, others, translatedStore, query, options, store>>

MultilingualFallbackStepFail ==
    /\ pc = "ml fallback"
    /\ calls' = Append(calls,
           StoreCall("ThresholdCascade", "vector", Head(pending), FALSE, <<>>))
    /\ Reject("store error")
    /\ UNCHANGED <<analysis, others, translatedStore, query, options, store, result, pending>>

\* translateQueryToIndonesian returns the translation (lines 65-70)
TranslateOk ==
    /\ pc = "ml translate"
    /\ calls' = Append(calls, [stage |-> "Translation", ok |-> TRUE])
    /\ pc' = "ml embed translated"
    /\ UNCHANGED <<analysis, others, translatedStore, query, options, store, result,
                   pending, outcome>>

\* the provider fails: translateQueryToIndonesian catches the error and
\* returns the original query (lines 71-74)
TranslateFail ==
    /\ pc = "ml translate"
    /\ calls' = Append(calls, [stage |-> "Translation", ok |-> FALSE])
    /\ pc' = "ml embed translated"
    /\ UNCHANGED <<analysis, others, translatedStore, query, options, store, result,
                   pending, outcome>>

\* line 197: the embedding of what translateQueryToIndonesian returned
TranslatedEmbeddingOk ==
    /\ pc = "ml embed translated"
    /\ calls' = Append(calls, [stage |-> "Embedding", ok |-> TRUE])
    /\ pc' = "ml vector translated"
    /\ UNCHANGED <<analysis, others, translatedStore, query, options, store, result,
                   pending, outcome>>

\* generateQueryEmbedding throws inside the try of line 195: the catch of
\* line 201 logs it and line 207 returns the rows vectorSearch had
TranslatedEmbeddingFail ==
    /\ pc = "ml embed translated"
    /\ calls' = Append(calls, [stage |-> "Embedding", ok |-> FALSE])
    /\ MultilingualResolve(result)
    /\ UNCHANGED <<analysis, others, translatedStore, query, options, store, result, pending>>

\* the text that was embedded at line 197 is the translation, or the
\* original query when the translation failed
SearchedStore ==
    IF calls[Len(calls) - 1].ok THEN translatedStore ELSE store

\* variant: the retry queries at the original threshold
TranslatedSearchOk_AtOriginalThreshold ==
    /\ pc = "ml vector translated"
    /\ \E rows \in executeVectorSearch(SearchedStore, threshold, limit) :
        /\ calls' = Append(calls,
               StoreCall("CrossLanguageRetry", "vector", threshold, TRUE, rows))
        /\ result' = rows
        /\ MultilingualResolve(rows)
    /\ UNCHANGED <<analysis, others, translatedStore, query, options, store, pending>>

\* line 199: executeVectorSearch(queryEmbedding, 0, limit)
TranslatedSearchOk ==
    /\ pc = "ml vector translated"
    /\ \E rows \in executeVectorSearch(SearchedStore, 0, limit) :
        /\ calls' = Append(calls,
               StoreCall("CrossLanguageRetry", "vector", 0, TRUE, rows))
        /\ result' = rows
        /\ MultilingualResolve(rows)
    /\ UNCHANGED <<analysis, others, translatedStore, query, options, store, pending>>

\* the store fails inside the try of line 195: caught at line 201
TranslatedSearchFail ==
    /\ pc = "ml vector translated"
    /\ calls' = Append(calls,
           StoreCall("CrossLanguageRetry", "vector", 0, FALSE, <<>>))
    /\ MultilingualResolve(result)
    /\ UNCHANGED <<analysis, others, translatedStore, query, options, store, result, pending>>

MultilingualQueries == {q \in Queries : Len(q) = 1 \/ q = <<"j", "u", "l", "i", "o">>}

MultilingualSims == {-600, 100, 600}

TranslatedSims == {0, 600}

InitMultilingual ==
    /\ query \in MultilingualQueries
    /\ options \in OptionsSet
    /\ store \in {st \in Stores : \A d \in DOMAIN st : st[d] \in MultilingualSims}
    /\ translatedStore \in [DOMAIN store -> TranslatedSims]
    /\ pc = "ml embed"
    /\ result = <<>>
    /\ pending = <<>>
    /\ calls = <<>>
    /\ outcome = [status |-> "pending"]
    /\ others = <<>>
    /\ analysis = <<>>

NextMultilingual ==
    \/ MultilingualEmbeddingOk
    \/ MultilingualEmbeddingFail
    \/ MultilingualSearchOk
    \/ MultilingualSearchFail
    \/ MultilingualFallbackStepOk
    \/ MultilingualFallbackStepFail
    \/ TranslateOk
    \/ TranslateFail
    \/ TranslatedEmbeddingOk
    \/ TranslatedEmbeddingFail
    \/ TranslatedSearchOk
    \/ TranslatedSearchFail

SpecMultilingual == InitMultilingual /\ [][NextMultilingual]_vars

(***************************************************************************)
(* The Query Analyzer on its own: extractQueryIdentifiers applied to a     *)
(* text, and then to the text made of what it returned.                    *)
(***************************************************************************)
\* Array.prototype.join(' ')
RECURSIVE JoinSpaces(_)
JoinSpaces(ws) ==
    IF ws = <<>> THEN <<>>
    ELSE IF Len(ws) = 1 THEN Head(ws)
    ELSE Head(ws) \o <<" ">> \o JoinSpaces(Tail(ws))

\* the identifiers and the keywords of one run, joined by spaces
CanonicalText(out) == JoinSpaces(out.identifiers \o out.keywords)

AnalyzerWords == {
    <<"J","u","l","i","o">>,
    <<"j","u","l","i","o">>,
    <<"2","0","2","4","-","0","0","1">>,
    <<"A","B","1","2">>,
    <<"a","b","1","2">>,
    <<"A","B">>,
    <<"1","2">>,
    <<"N">>,
    <<"?">> }

MaxWords == 2

AnalyzerTexts ==
    {JoinSpaces(ws) : ws \in UNION {[1..k -> AnalyzerWords] : k \in 1..MaxWords}}

\* eight capitalised names: sixteen keyword entries before slice(0, 15)
LongWords == <<
    <<"A","n","n">>, <<"B","o","b">>, <<"C","a","l">>, <<"D","a","n">>,
    <<"E","v","e">>, <<"F","a","y">>, <<"G","u","s">>, <<"H","a","l">> >>

\* texts whose keywords fill the list, with and without the last name
LongTexts ==
    {JoinSpaces(SubSeq(LongWords, 1, k)) : k \in {Len(LongWords) - 1, Len(LongWords)}}

InitAnalyzer ==
    /\ query \in AnalyzerTexts \cup LongTexts
    /\ pc = "analyze"
    /\ analysis = <<>>
    /\ options = <<>>
    /\ store = <<>>
    /\ result = <<>>
    /\ pending = <<>>
    /\ calls = <<>>
    /\ outcome = [status |-> "pending"]
    /\ others = <<>>
    /\ translatedStore = <<>>

\* extractQueryIdentifiers(query)
Analyze ==
    /\ pc = "analyze"
    /\ analysis' = <<extractQueryIdentifiers(query)>>
    /\ pc' = "reanalyze"
    /\ UNCHANGED <<query, options, store, result, pending, calls, outcome,
                   others, translatedStore>>

\* extractQueryIdentifiers on the text of its own output
Reanalyze ==
    /\ pc = "reanalyze"
    /\ analysis' = Append(analysis,
                       extractQueryIdentifiers(CanonicalText(analysis[1])))
    /\ pc' = "analyzed"
    /\ UNCHANGED <<query, options, store, result, pending, calls, outcome,
                   others, translatedStore>>

NextAnalyzer ==
    \/ Analyze
    \/ Reanalyze

SpecAnalyzer == InitAnalyzer /\ [][NextAnalyzer]_vars

(***************************************************************************)
(* Vocabulary of the properties                                            *)
(***************************************************************************)
Done == pc = "done"

Resolved == outcome.status = "resolved"

Rejected == outcome.status = "rejected"

LastCall == calls[Len(calls)]

IsStoreCall(c) == c.stage # "Embedding"

\* every collaborator call so far succeeded
NoFailure == \A i \in DOMAIN calls : calls[i].ok

\* the ids of the returned documents
ReturnedIds == {outcome.value[k].document.id : k \in DOMAIN outcome.value}

RowIds(rows) == {rows[k].id : k \in DOMAIN rows}

Lex(id) == LexicalColumns[query].rows[id]

\* the row has no lexical match to the query, for either lexical query
NoLexicalMatch(id) == ~Lex(id).term_match /\ ~Lex(id).keyword_match

\* priority tier of a document for the query of the call
Tier(id) == IF Lex(id).title_boost > 0 THEN 1
            ELSE IF Lex(id).content_boost > 0 THEN 2 ELSE 3

(***************************************************************************)
(* C1: every returned result has 0 <= similarity <= 1, whichever stage     *)
(* produced the rows, also for rows with a negative base similarity.       *)
(* Stated as claimed; the code returns the unfiltered hybrid rows when the *)
(* post-filter rejects all of them, and the mapper has no lower bound.     *)
(***************************************************************************)
C1_SimilarityInUnitInterval ==
    Resolved =>
        \A k \in DOMAIN outcome.value :
            /\ 0 <= outcome.value[k].similarity
            /\ outcome.value[k].similarity <= 1000

(***************************************************************************)
(* C2: the returned list has at most `limit` entries (DEFAULT_LIMIT when   *)
(* the option is omitted), whichever stage produced it.                    *)
(***************************************************************************)
C2_LimitRespected ==
    Resolved => Len(outcome.value) <= limit

\* the default limit cuts the list short: the option is omitted and more
\* than DEFAULT_LIMIT rows of the store qualify for the answering query
C2_Witness ==
    /\ Resolved
    /\ "limit" \notin DOMAIN options
    /\ LastCall.stage = "Hybrid"
    /\ LastCall.sql = "hybrid"
    /\ Len(outcome.value) = DEFAULT_LIMIT
    /\ Cardinality({id \in DOMAIN store :
           Lex(id).term_match \/ store[id] > LastCall.threshold}) > DEFAULT_LIMIT

(***************************************************************************)
(* C3, as claimed: a store failure in any of the steps 1-4 (Hybrid,        *)
(* KeywordPriority, PureVector, ThresholdCascade) makes vectorSearch       *)
(* reject with the query, limit and threshold; it never resolves.          *)
(***************************************************************************)
CarriesContext ==
    /\ outcome.error.query = query
    /\ outcome.error.options = options

C3_AnyStoreFailureRejects ==
    (Done /\ \E i \in DOMAIN calls : IsStoreCall(calls[i]) /\ ~calls[i].ok)
        => (Rejected /\ CarriesContext)

(***************************************************************************)
(* C3, amended: a store failure of the Hybrid query, the PureVector query  *)
(* or a ThresholdCascade step ends the call at once with a rejection that  *)
(* carries the query and the options as passed; a failure of the           *)
(* KeywordPriority query is absorbed and the PureVector query follows.     *)
(***************************************************************************)
C3_StoreFailureRejects ==
    \A i \in DOMAIN calls :
        (IsStoreCall(calls[i]) /\ ~calls[i].ok) =>
            IF calls[i].stage = "KeywordPriority"
                THEN /\ i = Len(calls) => pc = "vector"
                     /\ i < Len(calls) => calls[i + 1].stage = "PureVector"
                ELSE /\ i = Len(calls)
                     /\ Rejected
                     /\ CarriesContext

C3_Witness ==
    /\ Rejected
    /\ LastCall.stage = "ThresholdCascade"
    /\ ~LastCall.ok
    /\ \E i \in DOMAIN calls : calls[i].stage = "KeywordPriority" /\ ~calls[i].ok

(***************************************************************************)
(* C4: when no stage returns a row and no collaborator fails, the call     *)
(* resolves with the empty list; a rejection only ever follows a failed    *)
(* collaborator call, never an empty answer.                               *)
(***************************************************************************)
NoRowsAnywhere ==
    \A i \in DOMAIN calls : IsStoreCall(calls[i]) => calls[i].rows = <<>>

C4_EmptyResultIsNotAnError ==
    /\ (Done /\ NoFailure /\ NoRowsAnywhere) =>
           (Resolved /\ outcome.value = <<>>)
    /\ Rejected => ~LastCall.ok

\* the whole cascade ran down to threshold 0 over a non-empty store
C4_Witness ==
    /\ Resolved
    /\ outcome.value = <<>>
    /\ store # <<>>
    /\ \E i \in DOMAIN calls : calls[i].stage = "KeywordPriority" /\ calls[i].ok
    /\ LastCall.stage = "ThresholdCascade"
    /\ LastCall.threshold = 0

(***************************************************************************)
(* C5, as claimed: for a query with an identifier or a keyword, when the   *)
(* hybrid query returns no raw row a KeywordPriority query is issued, and  *)
(* it is issued before the PureVector query.                               *)
(***************************************************************************)
HybridModeEmptyAt(i) ==
    /\ calls[i].stage = "Hybrid"
    /\ calls[i].sql = "hybrid"
    /\ calls[i].ok
    /\ calls[i].rows = <<>>

HasTerms ==
    \/ LexicalColumns[query].identifiers # <<>>
    \/ LexicalColumns[query].keywords # <<>>

KeywordQueryFollows(i) ==
    /\ i = Len(calls) => pc = "keyword"
    /\ i < Len(calls) => calls[i + 1].stage = "KeywordPriority"

C5_KeywordBeforeVector ==
    \A i \in DOMAIN calls :
        (HasTerms /\ HybridModeEmptyAt(i)) => KeywordQueryFollows(i)

(***************************************************************************)
(* C5, amended: the KeywordPriority query follows an empty hybrid answer,  *)
(* before the PureVector query, exactly for the queries that give          *)
(* tryKeywordSearch a keyword of its own (a word of 3 or more word         *)
(* characters with a letter); for the other queries tryKeywordSearch       *)
(* returns without a query and the PureVector query comes next.            *)
(***************************************************************************)
C5_KeywordBeforeVectorWhenSearchable ==
    \A i \in DOMAIN calls :
        HybridModeEmptyAt(i) =>
            IF LexicalColumns[query].searchKeywords # <<>>
                THEN KeywordQueryFollows(i)
                ELSE /\ i = Len(calls) => pc = "vector"
                     /\ i < Len(calls) => calls[i + 1].stage = "PureVector"

C5_Witness ==
    /\ Len(calls) >= 4
    /\ HybridModeEmptyAt(2)
    /\ calls[3].stage = "KeywordPriority"
    /\ calls[3].ok
    /\ calls[4].stage = "PureVector"

(***************************************************************************)
(* C6: one embedding call per search, made before any store query; when it *)
(* fails the call is rejected with the query, there is no second embedding *)
(* call and no store query.                                                *)
(***************************************************************************)
C6_OneEmbeddingCallFirst ==
    /\ \A i \in DOMAIN calls : (calls[i].stage = "Embedding") = (i = 1)
    /\ Done => Len(calls) >= 1
    /\ (calls # <<>> /\ ~calls[1].ok) =>
           /\ Len(calls) = 1
           /\ Rejected
           /\ outcome.error.query = query

C6_Witness ==
    /\ Rejected
    /\ Len(calls) = 1
    /\ calls[1].stage = "Embedding"
    /\ ~calls[1].ok

(***************************************************************************)
(* C7: a list returned from the hybrid query is sorted by priority tier    *)
(* ascending and, within a tier, by similarity non-increasing; a list      *)
(* returned from a pure vector query is sorted by similarity               *)
(* non-increasing.                                                         *)
(***************************************************************************)
C7_ResultsOrdered ==
    Resolved /\ outcome.value # <<>> =>
        \A i, j \in DOMAIN outcome.value :
            i < j =>
                LET a == outcome.value[i]
                    b == outcome.value[j]
                IN  /\ LastCall.sql = "hybrid" =>
                           \/ Tier(a.document.id) < Tier(b.document.id)
                           \/ /\ Tier(a.document.id) = Tier(b.document.id)
                              /\ a.similarity >= b.similarity
                    /\ LastCall.sql = "vector" => a.similarity >= b.similarity

\* one row of each tier, the title match ranked first with the lower score
C7_Witness ==
    /\ Resolved
    /\ LastCall.sql = "hybrid"
    /\ Len(outcome.value) = 3
    /\ Tier(outcome.value[1].document.id) = 1
    /\ Tier(outcome.value[2].document.id) = 2
    /\ Tier(outcome.value[3].document.id) = 3
    /\ outcome.value[1].similarity < outcome.value[2].similarity

(***************************************************************************)
(* C8, as claimed (Scenario C): at threshold 0.3, with one stored row of    *)
(* base similarity 0.12 that has no lexical match to the query and nothing *)
(* else to find, the row is returned, and the query that finds it is the   *)
(* ThresholdCascade query at the 0.1 floor, after the ladder queries at    *)
(* 0.21 and 0.15 returned no rows; for queries with and without keywords.  *)
(***************************************************************************)
ScenarioC(d) ==
    /\ threshold = 300
    /\ d \in DOMAIN store
    /\ store[d] = 120
    /\ \A e \in DOMAIN store : NoLexicalMatch(e)
    /\ \A e \in DOMAIN store \ {d} : store[e] <= 0

C8_FoundAtFloorOneTenth ==
    \A d \in DocIds :
        (ScenarioC(d) /\ Done /\ NoFailure) =>
            /\ Resolved
            /\ Len(outcome.value) = 1
            /\ outcome.value[1].document.id = d
            /\ outcome.value[1].similarity = 120
            /\ Len(calls) >= 3
            /\ LastCall.stage = "ThresholdCascade"
            /\ LastCall.threshold = 100
            /\ LET n == Len(calls)
               IN  /\ calls[n - 1].stage = "ThresholdCascade"
                   /\ calls[n - 1].threshold = 150
                   /\ calls[n - 1].rows = <<>>
                   /\ calls[n - 2].stage = "ThresholdCascade"
                   /\ calls[n - 2].threshold = 210
                   /\ calls[n - 2].rows = <<>>

(***************************************************************************)
(* C9: in hybrid mode a stored row whose title matches a search term and   *)
(* whose base similarity lies in [0,1] is returned whenever it ranks       *)
(* within the limit, at every threshold: it passes the post-filter through *)
(* the boost > 0.3 branch.                                                 *)
(***************************************************************************)
TitleMatches == {id \in DOMAIN store : Lex(id).title_boost > 0}

C9_TitleMatchSurfaces ==
    (Resolved /\ calls[2].sql = "hybrid") =>
        \A id \in TitleMatches :
            (0 <= store[id] /\ store[id] <= 1000) =>
                \* ranked within the limit: among the rows the store answered
                /\ id \in RowIds(calls[2].rows) =>
                       /\ id \in ReturnedIds
                       /\ \A k \in DOMAIN calls[2].rows :
                              calls[2].rows[k].id = id =>
                                  /\ calls[2].rows[k].keyword_boost > 300
                                  /\ passesFilter(calls[2].rows[k], threshold)
                \* title matches rank first: all are answered if they fit
                /\ Cardinality(TitleMatches) <= limit => id \in ReturnedIds

\* Scenario A: base similarity 0.1 under the default threshold 0.3
C9_Witness ==
    /\ Resolved
    /\ "threshold" \notin DOMAIN options
    /\ \E id \in TitleMatches :
        /\ store[id] = 100
        /\ id \in ReturnedIds
        /\ \E e \in DOMAIN store : e \notin ReturnedIds

(***************************************************************************)
(* C10: a returned row with no lexical match to the query and base         *)
(* similarity s, threshold <= s <= 1, carries similarity exactly s, from   *)
(* the hybrid query's non-boosted branch as from the pure vector query;    *)
(* the post-filter keeps every such row the hybrid query answered.         *)
(***************************************************************************)
Unboosted(id) ==
    /\ NoLexicalMatch(id)
    /\ threshold <= store[id]
    /\ store[id] <= 1000

C11_NoDuplicateDocuments ==
    Resolved =>
        /\ \A i, j \in DOMAIN outcome.value :
               outcome.value[i].document.id = outcome.value[j].document.id => i = j
        /\ \/ outcome.value = <<>>
           \/ outcome.value = mapRowsToDocuments(LastCall.rows)
           \/ /\ LastCall.stage = "Hybrid"
              /\ outcome.value = mapRowsToDocuments(FilterRows(LastCall.rows, threshold))

\* two rows found by a cascade step, after three earlier passes found none
C11_Witness ==
    /\ Resolved
    /\ LastCall.stage = "ThresholdCascade"
    /\ Len(outcome.value) = 2
    /\ Len(calls) >= 5
    /\ calls[2].stage = "Hybrid"
    /\ calls[3].stage = "PureVector"

(***************************************************************************)
(* C12: with several calls in flight on one instance, in any interleaving  *)
(* of their awaited steps over an unchanging store, every call behaves as  *)
(* it does alone: each store answer it receives is an answer to its own    *)
(* query text, limit and threshold, it settles with the value its own last *)
(* answer determines (or with a rejection carrying its own query and       *)
(* options), and nothing another call did enters its locals.               *)
(***************************************************************************)
AllFrames == {Frame} \cup {others[c] : c \in DOMAIN others}

limitOf(f) ==
    IF "limit" \in DOMAIN f.options THEN f.options.limit ELSE DEFAULT_LIMIT

thresholdOf(f) ==
    IF "threshold" \in DOMAIN f.options THEN f.options.threshold
    ELSE DEFAULT_THRESHOLD

\* the store answers to the inputs of call f itself
OwnAnswer(f, c) ==
    CASE c.sql = "hybrid" ->
             /\ c.threshold = Max2(0, thresholdOf(f) - HybridRelaxation)
             /\ c.rows \in hybridQuery(store, f.query, c.threshold, limitOf(f))
      [] c.sql = "keyword" ->
             c.rows \in keywordQuery(store, f.query, limitOf(f))
      [] OTHER ->
             /\ \/ c.threshold = thresholdOf(f)
                \/ \E k \in DOMAIN fallbackThresholds(thresholdOf(f)) :
                       fallbackThresholds(thresholdOf(f))[k] = c.threshold
             /\ c.rows \in executeVectorSearch(store, c.threshold, limitOf(f))

\* the value a call run alone returns after the answer c
ValueAfter(f, c) ==
    IF c.stage = "Hybrid" /\ FilterRows(c.rows, thresholdOf(f)) # <<>>
        THEN mapRowsToDocuments(FilterRows(c.rows, thresholdOf(f)))
        ELSE mapRowsToDocuments(c.rows)

AsIfAlone(f) ==
    /\ \A i \in DOMAIN f.calls :
           (f.calls[i].stage # "Embedding" /\ f.calls[i].ok) =>
               OwnAnswer(f, f.calls[i])
    /\ f.outcome.status = "resolved" =>
           /\ f.pc = "done"
           /\ f.calls[Len(f.calls)].ok
           /\ f.outcome.value = ValueAfter(f, f.calls[Len(f.calls)])
    /\ f.outcome.status = "rejected" =>
           /\ f.pc = "done"
           /\ ~f.calls[Len(f.calls)].ok
           /\ f.outcome.error.query = f.query
           /\ f.outcome.error.options = f.options
    /\ f.pc # "done" => f.outcome.status = "pending"

C12_ConcurrentCallsIndependent ==
    \A f \in AllFrames : AsIfAlone(f)

\* two settled calls with different queries: one returned the hybrid rows,
\* the other ran its ladder down to 0 after that and returned nothing
C12_Witness ==
    /\ Resolved
    /\ LastCall.stage = "ThresholdCascade"
    /\ LastCall.threshold = 0
    /\ outcome.value = <<>>
    /\ \E c \in DOMAIN others :
        /\ others[c].outcome.status = "resolved"
        /\ others[c].query # query
        /\ others[c].outcome.value # <<>>
        /\ others[c].calls[Len(others[c].calls)].stage = "Hybrid"

(***************************************************************************)
(* C13: provided every awaited call completes, a vectorSearch settles, and *)
(* it does so after at most 9 store queries: one Hybrid query, at most one *)
(* KeywordPriority query, at most one PureVector query and at most 6       *)
(* ThresholdCascade steps; a failed query is not issued again and the      *)
(* ladder still to be tried only shrinks.                                  *)
(***************************************************************************)
StageCount(stage) ==
    Cardinality({i \in DOMAIN calls : calls[i].stage = stage})

MaxLadderSteps == 6

\* one Hybrid, one KeywordPriority and one PureVector query, and the ladder
MaxStoreQueries == 3 + MaxLadderSteps

StoreQueriesBounded ==
    /\ StageCount("Hybrid") <= 1
    /\ StageCount("KeywordPriority") <= 1
    /\ StageCount("PureVector") <= 1
    /\ StageCount("ThresholdCascade") <= MaxLadderSteps
    /\ ~Done => StageCount("ThresholdCascade") + Len(pending) <= MaxLadderSteps
    /\ Cardinality({i \in DOMAIN calls : IsStoreCall(calls[i])}) <= MaxStoreQueries
    /\ \A i \in DOMAIN calls :
           (i < Len(calls) /\ ~calls[i].ok) => calls[i + 1].stage # calls[i].stage

C13_TerminatesWithinNineQueries ==
    []StoreQueriesBounded /\ <>Done

\* the longest call: all 9 store queries were made and none found a row
C13_Witness ==
    /\ Resolved
    /\ Cardinality({i \in DOMAIN calls : IsStoreCall(calls[i])}) = MaxStoreQueries
    /\ StageCount("ThresholdCascade") = MaxLadderSteps
    /\ outcome.value = <<>>

(***************************************************************************)
(* C14, as claimed: in the deployment with a translation provider a failed *)
(* translation call does not reject the search; the search ends with the   *)
(* empty result it had, and no embedding call and no store query follows   *)
(* the failed translation. In the code translateQueryToIndonesian returns  *)
(* the original query on failure, which is embedded and searched again.    *)
(***************************************************************************)
FailedTranslationAt(i) ==
    /\ calls[i].stage = "Translation"
    /\ ~calls[i].ok

C14_FailedTranslationEndsCascade ==
    \A i \in DOMAIN calls :
        FailedTranslationAt(i) =>
            /\ ~Rejected
            /\ Done => (Resolved /\ outcome.value = <<>>)
            /\ i = Len(calls)

(***************************************************************************)
(* C15, as claimed: extractQueryIdentifiers applied to the text of its own *)
(* output (identifiers and keywords joined by spaces) returns the same set *)
(* of identifiers and the same list of keywords as it returned for the     *)
(* query. The keyword loop emits "julio", "Julio" for Julio and only       *)
(* "julio" for the text "julio Julio".                                     *)
(***************************************************************************)
C15_AnalyzerIdempotent ==
    Len(analysis) = 2 =>
        /\ Range(analysis[2].identifiers) = Range(analysis[1].identifiers)
        /\ analysis[2].keywords = analysis[1].keywords

(***************************************************************************)
(* C16: the identifiers returned by extractQueryIdentifiers are trimmed,   *)
(* upper-cased and free of duplicates: a code-like word such as 2024-001   *)
(* is extracted, and an identifier that occurs several times in the text,  *)
(* in one letter case or in several, or that several patterns match, is    *)
(* returned exactly once.                                                  *)
(***************************************************************************)
HasWord(q, w) == \E k \in DOMAIN SplitWhitespace(q) : SplitWhitespace(q)[k] = w

Occurrences(s, x) == Cardinality({i \in DOMAIN s : s[i] = x})

\* what the patterns match in q, pattern after pattern, before normalising
RawMatches(q) ==
    Flatten([p \in DOMAIN identifierPatterns |->
                MatchAllFrom(identifierPatterns[p], q, 1)])

C16_IdentifiersNormalisedAndUnique ==
    Len(analysis) >= 1 =>
        LET ids == analysis[1].identifiers
        IN  /\ \A i, j \in DOMAIN ids : ids[i] = ids[j] => i = j
            /\ \A i \in DOMAIN ids : ids[i] = ToUpperCase(Trim(ids[i]))
            /\ \A k \in DOMAIN RawMatches(query) :
                   Occurrences(ids, ToUpperCase(Trim(RawMatches(query)[k]))) = 1
            /\ HasWord(query, <<"2","0","2","4","-","0","0","1">>) =>
                   Occurrences(ids, <<"2","0","2","4","-","0","0","1">>) = 1
            /\ (HasWord(query, <<"a","b","1","2">>) \/ HasWord(query, <<"A","B","1","2">>)) =>
                   Occurrences(ids, <<"A","B","1","2">>) = 1

\* ab12 and AB12 in one text, each matched by two patterns: one AB12
C16_Witness ==
    /\ Len(analysis) >= 1
    /\ HasWord(query, <<"a","b","1","2">>)
    /\ HasWord(query, <<"A","B","1","2">>)
    /\ Occurrences(RawMatches(query), <<"a","b","1","2">>) = 2
    /\ Occurrences(RawMatches(query), <<"A","B","1","2">>) = 2
    /\ analysis[1].identifiers = << <<"A","B","1","2">> >>

(***************************************************************************)
(* C17, as claimed: a row of the hybrid query that the post-filter rejects *)
(* is never returned. The post-filter accepts a row iff boost > 0.3 and    *)
(* (similarity >= 0.5 or base similarity >= 0.2), or boost in (0.15, 0.3]  *)
(* and similarity >= max(threshold - 0.2, 0.4), or boost <= 0.15 and       *)
(* similarity >= threshold; also when it rejects every row of the answer.  *)
(* The code returns the whole answer when the post-filter rejects it all.  *)
(***************************************************************************)
PostFilterAccepts(row) ==
    LET boost == IF HasField(row, "keyword_boost") THEN row.keyword_boost ELSE 0
        base  == IF HasField(row, "base_similarity") THEN row.base_similarity ELSE 0
    IN  \/ boost > 300 /\ (row.similarity >= 500 \/ base >= 200)
        \/ /\ boost > 150
           /\ boost <= 300
           /\ row.similarity >= Max2(threshold - 200, 400)
        \/ boost <= 150 /\ row.similarity >= threshold

C17_RejectedRowsNeverReturned ==
    /\ \A i \in DOMAIN calls :
           (calls[i].stage = "Hybrid" /\ calls[i].ok) =>
               \A k \in DOMAIN calls[i].rows :
                   passesFilter(calls[i].rows[k], threshold)
                       = PostFilterAccepts(calls[i].rows[k])
    /\ (Resolved /\ LastCall.stage = "Hybrid") =>
           \A k \in DOMAIN LastCall.rows :
               LastCall.rows[k].id \in ReturnedIds =>
                   PostFilterAccepts(LastCall.rows[k])

(***************************************************************************)
(* C18, as claimed: when the hybrid query answers rows and the post-filter *)
(* keeps none of them, the pure vector query at the caller's threshold     *)
(* comes next (and the ladder after it, if it finds nothing) before the    *)
(* call returns. The code skips every later stage, because result.rows is  *)
(* not empty, and returns.                                                 *)
(***************************************************************************)
AllRejectedAt(i) ==
    /\ calls[i].stage = "Hybrid"
    /\ calls[i].ok
    /\ calls[i].rows # <<>>
    /\ FilterRows(calls[i].rows, threshold) = <<>>

C18_AllRejectedFallsBackToVector ==
    \A i \in DOMAIN calls :
        AllRejectedAt(i) =>
            /\ i = Len(calls) => pc = "vector"
            /\ i < Len(calls) =>
                   /\ calls[i + 1].stage = "PureVector"
                   /\ calls[i + 1].threshold = threshold

(***************************************************************************)
(* C19: once a stage has its accepted non-empty result (hybrid rows that   *)
(* pass the post-filter, a non-empty KeywordPriority or PureVector answer, *)
(* the first non-empty ThresholdCascade answer) that store query is the    *)
(* last one of the call, and the call returns exactly those rows.          *)
(***************************************************************************)
AcceptedRows(c) ==
    IF c.stage = "Hybrid" THEN FilterRows(c.rows, threshold) ELSE c.rows

C19_FirstAcceptedResultIsReturned ==
    \A i \in DOMAIN calls :
        (IsStoreCall(calls[i]) /\ calls[i].ok /\ AcceptedRows(calls[i]) # <<>>) =>
            /\ i = Len(calls)
            /\ Resolved
            /\ outcome.value = mapRowsToDocuments(AcceptedRows(calls[i]))

\* the ladder stops at its first step that finds a row, with lower
\* thresholds left untried and another row left unfound
C19_Witness ==
    /\ Resolved
    /\ LastCall.stage = "ThresholdCascade"
    /\ LastCall.rows # <<>>
    /\ pending # <<>>
    /\ \E id \in DOMAIN store : id \notin ReturnedIds /\ store[id] > 0
    /\ Len(outcome.value) < limit

(***************************************************************************)
(* C20, as claimed: for every original threshold t in (0,1] the ladder     *)
(* queries the thresholds 0.7*t, 0.5*t, 0.1, 0.05, 0.01, 0 in this order   *)
(* and stops at the first that returns a row.                              *)
(***************************************************************************)
\* the thresholds of the ThresholdCascade queries made so far, in order
RECURSIVE LadderOf(_)
LadderOf(cs) ==
    IF cs = <<>> THEN <<>>
    ELSE IF Head(cs).stage = "ThresholdCascade"
        THEN <<Head(cs).threshold>> \o LadderOf(Tail(cs))
        ELSE LadderOf(Tail(cs))

IsPrefix(s, t) == Len(s) <= Len(t) /\ s = SubSeq(t, 1, Len(s))

\* the ladder ran: all of `ladder` if nothing was found, else up to the
\* first step that found a row
RanLadder(ladder) ==
    /\ IsPrefix(LadderOf(calls), ladder)
    /\ \A i \in DOMAIN calls :
           (calls[i].stage = "ThresholdCascade" /\ calls[i].rows # <<>>) =>
               i = Len(calls)
    /\ (Done /\ NoFailure /\ LastCall.rows = <<>>) => LadderOf(calls) = ladder

LadderStarted == pc = "fallback" \/ LadderOf(calls) # <<>>

C21_LadderStrictlyDescending ==
    /\ \A i, j \in DOMAIN LadderOf(calls) :
           i < j => LadderOf(calls)[i] > LadderOf(calls)[j]
    /\ \A i \in DOMAIN LadderOf(calls) :
           /\ LadderOf(calls)[i] >= 0
           /\ LadderOf(calls)[i] < threshold

\* the calls before position i that went to the store
StoreCallsBefore(i) ==
    {j \in 1..(i - 1) : calls[j].stage \notin {"Embedding", "Translation"}}

\* what follows the translation at position i: one embedding call, then one
\* pure-vector query at threshold 0, which ends the call
RetryFollows(i) ==
    /\ Len(calls) > i => calls[i + 1].stage = "Embedding"
    /\ Len(calls) > i + 1 =>
           /\ calls[i + 1].ok
           /\ calls[i + 2].stage = "CrossLanguageRetry"
           /\ calls[i + 2].sql = "vector"
           /\ calls[i + 2].threshold = 0
           /\ Len(calls) = i + 2
           /\ Done
    /\ (Done /\ \A j \in (i + 1)..Len(calls) : calls[j].ok) =>
           /\ Len(calls) = i + 2
           /\ outcome = [status |-> "resolved",
                         value  |-> multilingualMapRowsToDocuments(
                                        calls[i + 2].rows)]

(***************************************************************************)
(* C22: with a translation provider, the translation is called only after  *)
(* the pure-vector query at the original threshold and every step of the   *)
(* ladder returned zero rows, and at most once in a search. It is followed *)
(* by one new embedding call and one pure-vector query at threshold 0;     *)
(* when both complete, the rows of that query, possibly none, are the      *)
(* returned result. The query at threshold 0 is made in no other place.    *)
(***************************************************************************)
C22_CrossLanguageRetryLast ==
    /\ \A i \in DOMAIN calls :
           calls[i].stage = "Translation" =>
               /\ \E j \in StoreCallsBefore(i) :
                      /\ calls[j].stage = "PureVector"
                      /\ calls[j].threshold = threshold
               /\ \A j \in StoreCallsBefore(i) :
                      calls[j].ok /\ calls[j].rows = <<>>
               /\ LadderOf(SubSeq(calls, 1, i - 1)) =
                      multilingualFallbackThresholds(threshold)
               /\ \A j \in DOMAIN calls : calls[j].stage = "Translation" => j = i
               /\ RetryFollows(i)
    /\ \A k \in DOMAIN calls :
           calls[k].stage = "CrossLanguageRetry" =>
               k > 2 /\ calls[k - 2].stage = "Translation"

\* the ladder found nothing, the translated query found a row at threshold 0
C22_Witness ==
    /\ Resolved
    /\ NoFailure
    /\ LadderOf(calls) # <<>>
    /\ LastCall.stage = "CrossLanguageRetry"
    /\ LastCall.rows # <<>>
    /\ outcome.value # <<>>

\* term is a substring of text, letter case ignored
ContainsIgnoringCase(text, term) ==
    \E p \in 0..(Len(text) - Len(term)) :
        ToLowerCase(SubSeq(text, p + 1, p + Len(term))) = ToLowerCase(term)

\* the positions of the terms that text contains
TermsIn(text, terms) ==
    {k \in DOMAIN terms : ContainsIgnoringCase(text, terms[k])}

\* per query and row: the search terms the title and the content contain
SubstringColumns ==
    Tabulated([q \in Queries |-> Tabulated([id \in DOMAIN Corpus |->
        [title   |-> TermsIn(Corpus[id].title, LexicalColumns[q].terms),
         content |-> TermsIn(Corpus[id].content, LexicalColumns[q].terms)]])])

\* the search terms of the running query that the title of the row contains
TitleTerms(id) == SubstringColumns[query][id].title

ContentTerms(id) == SubstringColumns[query][id].content

\* the stored rows above the gate or containing a search term
RawCandidates(gate) ==
    {id \in DOMAIN store :
        store[id] > gate \/ TitleTerms(id) # {} \/ ContentTerms(id) # {}}

HybridModeAt(i) ==
    /\ calls[i].stage = "Hybrid"
    /\ calls[i].ok
    /\ calls[i].sql = "hybrid"

\* the answer is made of candidates, and of all of them up to the LIMIT
AnswersCandidates(i, gate) ==
    /\ RowIds(calls[i].rows) \subseteq RawCandidates(gate)
    /\ Len(calls[i].rows) = Min2(limit, Cardinality(RawCandidates(gate)))

(***************************************************************************)
(* C23, amended: in hybrid mode a stored row is a raw candidate iff its    *)
(* base similarity is greater than max(0, threshold - 0.5) or at least one *)
(* search term is a case-insensitive substring of its title or content.    *)
(***************************************************************************)
C23_RawCandidateGateFloored ==
    \A i \in DOMAIN calls :
        HybridModeAt(i) =>
            AnswersCandidates(i, Max2(0, threshold - HybridRelaxation))

\* a row without a term, above the gate of a threshold over 0.5
C23_Witness ==
    /\ Len(calls) >= 2
    /\ HybridModeAt(2)
    /\ threshold > HybridRelaxation
    /\ \E k \in DOMAIN calls[2].rows :
           /\ TitleTerms(calls[2].rows[k].id) = {}
           /\ ContentTerms(calls[2].rows[k].id) = {}
    /\ \E id \in DOMAIN store : id \notin RowIds(calls[2].rows)

\* C23 as claimed: the gate is threshold - 0.5, also where that is negative
C23_RawCandidateGate ==
    \A i \in DOMAIN calls :
        HybridModeAt(i) => AnswersCandidates(i, threshold - HybridRelaxation)

\* the first n entries of s
FirstEntries(s, n) == SubSeq(s, 1, Min2(n, Len(s)))

\* base similarity plus 0.5 per term in the title and 0.3 per term in the
\* content, at most 1.0
CombinedSimilarity(id) ==
    Min2(1000, store[id] + TitleBoostWeight * Cardinality(TitleTerms(id))
                         + ContentBoostWeight * Cardinality(ContentTerms(id)))

PriorityTier(id) ==
    IF TitleTerms(id) # {} THEN 1
    ELSE IF ContentTerms(id) # {} THEN 2
    ELSE 3

(***************************************************************************)
(* C24: the search terms are all identifiers followed by the first 10      *)
(* keywords; every hybrid row has combined similarity min(1.0, base        *)
(* similarity + 0.5 * (terms matching the title) + 0.3 * (terms matching   *)
(* the content)), and priority tier 1 if a term matches the title, else 2  *)
(* if a term matches the content, else 3.                                  *)
(***************************************************************************)
C24_CombinedSimilarityAndTier ==
    /\ LexicalColumns[query].terms =
           LexicalColumns[query].identifiers
               \o FirstEntries(LexicalColumns[query].keywords, MaxHybridKeywords)
    /\ \A i \in DOMAIN calls :
           HybridModeAt(i) =>
               \A k \in DOMAIN calls[i].rows :
                   /\ calls[i].rows[k].base_similarity = store[calls[i].rows[k].id]
                   /\ calls[i].rows[k].similarity =
                          CombinedSimilarity(calls[i].rows[k].id)
                   /\ calls[i].rows[k].keyword_priority =
                          PriorityTier(calls[i].rows[k].id)

\* a row whose boosted similarity is capped at 1.0, and a row of tier 2
C24_Witness ==
    /\ Len(calls) >= 2
    /\ HybridModeAt(2)
    /\ \E k \in DOMAIN calls[2].rows :
           /\ calls[2].rows[k].keyword_priority = 1
           /\ calls[2].rows[k].similarity = 1000
           /\ calls[2].rows[k].base_similarity + calls[2].rows[k].keyword_boost > 1000
    /\ \E k \in DOMAIN calls[2].rows :
           /\ calls[2].rows[k].keyword_priority = 2
           /\ calls[2].rows[k].similarity < 1000

\* the k-th whitespace-separated token of the query, punctuation stripped
CleanedToken(k) == StripNonWord(SplitWhitespace(query)[k])

\* at least 2 characters, a letter among them, not purely numeric
EligibleToken(k) ==
    /\ Len(CleanedToken(k)) >= 2
    /\ \E i \in DOMAIN CleanedToken(k) : IsLetter(CleanedToken(k)[i])
    /\ \E i \in DOMAIN CleanedToken(k) : ~IsDigit(CleanedToken(k)[i])

\* the first occurrence of the token, letter case ignored
FirstOccurrence(k) ==
    /\ EligibleToken(k)
    /\ \A j \in 1..(k - 1) :
           ToLowerCase(CleanedToken(j)) # ToLowerCase(CleanedToken(k))

\* the lower-case form, then the original form if it differs and has at
\* least 3 characters
Contribution(k) ==
    IF ~FirstOccurrence(k) THEN <<>>
    ELSE IF CleanedToken(k) # ToLowerCase(CleanedToken(k)) /\ Len(CleanedToken(k)) >= 3
        THEN <<ToLowerCase(CleanedToken(k)), CleanedToken(k)>>
        ELSE <<ToLowerCase(CleanedToken(k))>>

ExpectedKeywords ==
    Flatten([k \in DOMAIN SplitWhitespace(query) |-> Contribution(k)])

(***************************************************************************)
(* C25, amended: the keyword list is the first 15 entries of the list in   *)
(* which each case-insensitively distinct token (punctuation stripped, at  *)
(* least 2 characters, a letter among them, not purely numeric)            *)
(* contributes its lower-case form once, in order of first occurrence,     *)
(* immediately followed by its original form iff that differs and the      *)
(* token has at least 3 characters.                                        *)
(***************************************************************************)
C25_KeywordsAreFirstFifteen ==
    Len(analysis) >= 1 =>
        analysis[1].keywords = FirstEntries(ExpectedKeywords, MaxKeywords)

\* eight capitalised names: the original form of the eighth is cut off
C25_Witness ==
    /\ Len(analysis) >= 1
    /\ Len(ExpectedKeywords) > MaxKeywords
    /\ Len(analysis[1].keywords) = MaxKeywords
    /\ analysis[1].keywords[MaxKeywords] = <<"h","a","l">>

\* C25 as claimed: every distinct token contributes its forms to the list,
\* and the list has at most 15 entries
C25_KeywordsComplete ==
    Len(analysis) >= 1 =>
        /\ analysis[1].keywords = ExpectedKeywords
        /\ Len(analysis[1].keywords) <= MaxKeywords

\* per query and row: the keywords of the keyword query that the title and
\* the content contain
KeywordColumns ==
    Tabulated([q \in Queries |-> Tabulated([id \in DOMAIN Corpus |->
        [title   |-> TermsIn(Corpus[id].title, LexicalColumns[q].searchKeywords),
         content |-> TermsIn(Corpus[id].content, LexicalColumns[q].searchKeywords)]])])

\* the rank of the first keyword the title contains; past the last keyword
\* when the title contains none
TitleRankOf(id) ==
    IF KeywordColumns[query][id].title = {}
        THEN Len(LexicalColumns[query].searchKeywords) + 1
        ELSE MinOf(KeywordColumns[query][id].title)

ContainsKeyword(id) ==
    KeywordColumns[query][id].title # {} \/ KeywordColumns[query][id].content # {}

\* row a comes before row b: lower title rank, then the more recent row
KeywordOrderBefore(a, b) ==
    \/ TitleRankOf(a) < TitleRankOf(b)
    \/ TitleRankOf(a) = TitleRankOf(b) /\ a > b

KeywordAnswerAt(i) ==
    /\ calls[i].stage = "KeywordPriority"
    /\ calls[i].ok
    /\ calls[i].rows # <<>>

(***************************************************************************)
(* C26: every result returned from the KeywordPriority stage has           *)
(* similarity exactly 0.5 and a title or content containing, letter case   *)
(* ignored, one of the at most 5 keywords taken from the query; the rows   *)
(* are ordered by the rank of the first keyword that matches the title     *)
(* (rows with no title match last), then most recent first, and they are   *)
(* the first `limit` rows in that order.                                   *)
(***************************************************************************)
C26_KeywordPriorityResults ==
    \A i \in DOMAIN calls :
        KeywordAnswerAt(i) =>
            /\ i = Len(calls)
            /\ Resolved
            /\ Len(LexicalColumns[query].searchKeywords) <= MaxKeywordSearchTerms
            /\ \A w \in DOMAIN LexicalColumns[query].searchKeywords :
                   \E k \in DOMAIN SplitWhitespace(query) :
                       LexicalColumns[query].searchKeywords[w]
                           = ToLowerCase(CleanedToken(k))
            /\ Len(outcome.value) = Len(calls[i].rows)
            /\ \A k \in DOMAIN outcome.value :
                   /\ outcome.value[k].similarity = KeywordSimilarity
                   /\ outcome.value[k].document.id = calls[i].rows[k].id
                   /\ ContainsKeyword(outcome.value[k].document.id)
            /\ \A k, m \in DOMAIN outcome.value :
                   k < m => KeywordOrderBefore(outcome.value[k].document.id,
                                               outcome.value[m].document.id)
            /\ \A id \in DOMAIN store \ ReturnedIds :
                   ContainsKeyword(id) =>
                       /\ Len(outcome.value) = limit
                       /\ \A k \in DOMAIN outcome.value :
                              KeywordOrderBefore(outcome.value[k].document.id, id)

\* a title match with a low id ahead of content matches, and those most
\* recent first
C26_Witness ==
    /\ Resolved
    /\ KeywordAnswerAt(Len(calls))
    /\ Len(outcome.value) >= 3
    /\ outcome.value[1].document.id < outcome.value[2].document.id
    /\ TitleRankOf(outcome.value[1].document.id) = 1
    /\ TitleRankOf(outcome.value[2].document.id)
           = TitleRankOf(outcome.value[3].document.id)
    /\ outcome.value[2].document.id > outcome.value[3].document.id

\* some stored row has a positive base similarity or contains a search term
SomethingToFind ==
    \E id \in DOMAIN store :
        store[id] > 0 \/ TitleTerms(id) # {} \/ ContentTerms(id) # {}

HybridEmptyAt(i) ==
    /\ HybridModeAt(i)
    /\ calls[i].rows = <<>>

\* the query has a search term and no more than 10 keyword entries
FewKeywords ==
    /\ LexicalColumns[query].terms # <<>>
    /\ Len(LexicalColumns[query].keywords) <= MaxHybridKeywords

HybridRowOf(id) ==
    [keyword_boost   |-> TitleBoostWeight * Cardinality(TitleTerms(id))
                           + ContentBoostWeight * Cardinality(ContentTerms(id)),
     base_similarity |-> store[id],
     similarity      |-> CombinedSimilarity(id)]

\* the stored row would pass the post-filter of the running call
Acceptable(id) == PostFilterAccepts(HybridRowOf(id))

(***************************************************************************)
(* C29, as claimed: for limit >= 1, when some stored row would pass the    *)
(* Hybrid post-filter for the query and the threshold, vectorSearch        *)
(* returns at least one row that passes it. The LIMIT of the hybrid query  *)
(* is applied before the post-filter: with limit 1 a title match that the  *)
(* filter rejects takes the place of an acceptable row of a lower tier,    *)
(* and it is what the call returns.                                        *)
(***************************************************************************)
C29_LimitNeverHidesAcceptableRow ==
    (Resolved /\ NoFailure /\ limit >= 1
              /\ \E id \in DOMAIN store : Acceptable(id)) =>
        \E k \in DOMAIN outcome.value : Acceptable(outcome.value[k].document.id)

\* per query: the queries with the same words in another letter case
CaseVariants ==
    Tabulated([q \in Queries |->
        {v \in Queries : v # q /\ ToLowerCase(v) = ToLowerCase(q)}])

(***************************************************************************)
(* C30, as claimed: for a fixed embedding and store the output of the      *)
(* search does not depend on the letter case of the words of the query:    *)
(* the rows the hybrid query answers, their order, their keyword boost and *)
(* their combined similarity are those it answers for the same words in    *)
(* another case. The analyzer gives Julio the keywords julio and Julio,    *)
(* and both are counted in the boost; julio has the first only.            *)
(***************************************************************************)
C30_LetterCaseInvariant ==
    \A i \in DOMAIN calls :
        (calls[i].stage = "Hybrid" /\ calls[i].ok) =>
            \A v \in CaseVariants[query] :
                calls[i].rows \in hybridVectorSearch(store, v, threshold, limit)



====
